---- MODULE Spec2Model ----
(***************************************************************************)
(* Model of the Anthropic -> Groq translation proxy: the zod request       *)
(* schemas (src/src/types.ts), the converters (src/src/converters.ts) and  *)
(* the POST /v1/messages handler of the worker (src/unnamed/part_003).     *)
(*                                                                         *)
(* Strings that the code builds or takes apart (message text, JSON text,   *)
(* template literals) are sequences of tokens, so that joining, wrapping,  *)
(* JSON.stringify and JSON.parse are computed, not assumed.  Strings that  *)
(* the code only passes along (roles, ids, names, error messages) are      *)
(* atomic.  Optional fields are records [has, val].                        *)
(***************************************************************************)
EXTENDS Integers, Sequences, FiniteSets, TLC

\* ------------------------------------------------------------------ bounds
MaxBlocks == 2      \* content blocks in one message
MaxMsgs   == 2      \* messages in one conversation
MaxTools  == 2      \* tool declarations in one request
MaxCalls  == 2      \* tool calls in one upstream completion

\* --------------------------------------------------------------- constants
GROQ_MODEL == "moonshotai/kimi-k2-instruct"
GROQ_MAX_OUTPUT_TOKENS == 16384
DEFAULT_MAX_TOKENS == 1024
DEFAULT_TEMPERATURE == "0.7"
DEFAULT_TOOL_CHOICE == "auto"

\* ------------------------------------------------------------------ tokens
NL == "\n"
SP == " "
Q  == "\""

RECURSIVE SeqsUpTo(_, _)
SeqsUpTo(S, n) ==
    IF n = 0 THEN {<<>>}
    ELSE LET shorter == SeqsUpTo(S, n - 1)
         IN  shorter \cup {Append(s, x) : s \in {t \in shorter : Len(t) = n - 1}, x \in S}

Some(v) == [has |-> TRUE, val |-> v]

\* ------------------------------------------------------------- JSON values
\* A JSON value is [kind, atom, kids]: kind in null/bool/num/str/obj/arr, atom
\* the literal of a scalar, kids the members [key, val] of an object or array.
JAtom(k, a) == [kind |-> k, atom |-> a, kids |-> <<>>]
JNull    == JAtom("null", "null")
JTrue    == JAtom("bool", "true")
JNum1    == JAtom("num", "1")
JStr(s)  == JAtom("str", s)
KV(k, v) == [key |-> k, val |-> v]
JObj(kids) == [kind |-> "obj", atom |-> "", kids |-> kids]
JArr(vals) == [kind |-> "arr", atom |-> "",
               kids |-> [i \in 1..Len(vals) |-> KV("", vals[i])]]

NoJson == [has |-> FALSE, val |-> JNull]

StringLiteral(s) == <<Q>> \o (IF s = "" THEN <<>> ELSE <<s>>) \o <<Q>>

RECURSIVE Indent(_)
Indent(n) == IF n = 0 THEN <<>> ELSE <<SP>> \o Indent(n - 1)

\* JSON.stringify(v, null, 2): members on lines of their own, indented
RECURSIVE JSONstringifyPretty(_, _)
RECURSIVE PrettyMembers(_, _, _)
JSONstringifyPretty(v, depth) ==
    CASE v.kind = "str" -> StringLiteral(v.atom)
      [] v.kind = "obj" ->
            IF v.kids = <<>> THEN <<"{", "}">>
            ELSE <<"{">> \o PrettyMembers(v.kids, TRUE, depth + 2)
                         \o <<NL>> \o Indent(depth) \o <<"}">>
      [] v.kind = "arr" ->
            IF v.kids = <<>> THEN <<"[", "]">>
            ELSE <<"[">> \o PrettyMembers(v.kids, FALSE, depth + 2)
                         \o <<NL>> \o Indent(depth) \o <<"]">>
      [] OTHER -> <<v.atom>>
PrettyMembers(kids, keyed, depth) ==
    IF kids = <<>> THEN <<>>
    ELSE <<NL>> \o Indent(depth)
         \o (IF keyed THEN StringLiteral(Head(kids).key) \o <<":", SP>> ELSE <<>>)
         \o JSONstringifyPretty(Head(kids).val, depth)
         \o (IF Len(kids) > 1 THEN <<",">> ELSE <<>>)
         \o PrettyMembers(Tail(kids), keyed, depth)

JSONstringifyIndented(v) == JSONstringifyPretty(v, 0)

\* JSON.stringify(v): the compact form, no whitespace between tokens
RECURSIVE JSONstringifyMembers(_, _)
RECURSIVE JSONstringify(_)
JSONstringify(v) ==
    CASE v.kind = "str" -> StringLiteral(v.atom)
      [] v.kind = "obj" -> <<"{">> \o JSONstringifyMembers(v.kids, TRUE) \o <<"}">>
      [] v.kind = "arr" -> <<"[">> \o JSONstringifyMembers(v.kids, FALSE) \o <<"]">>
      [] OTHER -> <<v.atom>>
JSONstringifyMembers(kids, keyed) ==
    IF kids = <<>> THEN <<>>
    ELSE (IF keyed THEN StringLiteral(Head(kids).key) \o <<":">> ELSE <<>>)
         \o JSONstringify(Head(kids).val)
         \o (IF Len(kids) > 1 THEN <<",">> ELSE <<>>)
         \o JSONstringifyMembers(Tail(kids), keyed)

\* JSON.parse(text): recursive descent over the tokens; whitespace between
\* tokens is skipped, anything else that is not JSON makes it throw (ok = FALSE)
ParseFail == [ok |-> FALSE, val |-> JNull, next |-> 0]
ParseOk(v, n) == [ok |-> TRUE, val |-> v, next |-> n]

RECURSIVE SkipWs(_, _)
SkipWs(s, i) ==
    IF i <= Len(s) /\ s[i] \in {SP, NL} THEN SkipWs(s, i + 1) ELSE i

\* a string literal at position i: [ok, val |-> JStr(chars), next]
ParseString(s, i) ==
    IF i > Len(s) \/ s[i] # Q THEN ParseFail
    ELSE IF i + 1 <= Len(s) /\ s[i + 1] = Q THEN ParseOk(JStr(""), i + 2)
    ELSE IF i + 2 <= Len(s) /\ s[i + 1] \notin {Q, NL} /\ s[i + 2] = Q
         THEN ParseOk(JStr(s[i + 1]), i + 3)
    ELSE ParseFail

Close(keyed) == IF keyed THEN "}" ELSE "]"
Container(keyed, kids) ==
    [kind |-> IF keyed THEN "obj" ELSE "arr", atom |-> "", kids |-> kids]

RECURSIVE ParseValue(_, _)
RECURSIVE ParseValueAt(_, _)
RECURSIVE ParseContainer(_, _, _)
RECURSIVE ParseMembers(_, _, _, _)
RECURSIVE AfterKey(_, _, _)
RECURSIVE AfterColon(_, _, _, _)
RECURSIVE AfterValue(_, _, _, _, _)
RECURSIVE AfterMember(_, _, _, _)
\* a value, after any whitespace
ParseValue(s, i) == ParseValueAt(s, SkipWs(s, i))
ParseValueAt(s, j) ==
    IF j > Len(s) THEN ParseFail
    ELSE CASE s[j] = Q -> ParseString(s, j)
           [] s[j] \in {"{", "["} -> ParseContainer(s, s[j] = "{", SkipWs(s, j + 1))
           [] s[j] = "null" -> ParseOk(JNull, j + 1)
           [] s[j] \in {"true", "false"} -> ParseOk(JAtom("bool", s[j]), j + 1)
           [] s[j] \in {"0", "1", "2"} -> ParseOk(JAtom("num", s[j]), j + 1)
           [] OTHER -> ParseFail
\* after the opening bracket: the closing one, or members
ParseContainer(s, keyed, k) ==
    IF k <= Len(s) /\ s[k] = Close(keyed)
    THEN ParseOk(Container(keyed, <<>>), k + 1)
    ELSE ParseMembers(s, k, <<>>, keyed)
\* member (, member)* and the closing bracket; acc holds the members read
ParseMembers(s, j, acc, keyed) ==
    IF keyed THEN AfterKey(s, ParseString(s, j), acc)
    ELSE AfterValue(s, "", ParseValue(s, j), acc, FALSE)
AfterKey(s, key, acc) ==
    IF ~key.ok THEN ParseFail
    ELSE AfterColon(s, key.val.atom, SkipWs(s, key.next), acc)
AfterColon(s, k, c, acc) ==
    IF c <= Len(s) /\ s[c] = ":"
    THEN AfterValue(s, k, ParseValue(s, c + 1), acc, TRUE)
    ELSE ParseFail
AfterValue(s, k, val, acc, keyed) ==
    IF ~val.ok THEN ParseFail
    ELSE AfterMember(s, SkipWs(s, val.next), Append(acc, KV(k, val.val)), keyed)
AfterMember(s, e, got, keyed) ==
    IF e > Len(s) THEN ParseFail
    ELSE IF s[e] = "," THEN ParseMembers(s, SkipWs(s, e + 1), got, keyed)
    ELSE IF s[e] = Close(keyed) THEN ParseOk(Container(keyed, got), e + 1)
    ELSE ParseFail

JSONparse(s) ==
    LET r == ParseValue(s, 1) IN
    IF r.ok /\ SkipWs(s, r.next) > Len(s)
    THEN [ok |-> TRUE, val |-> r.val]
    ELSE [ok |-> FALSE, val |-> JNull]

\* ------------------------------------------------- request data (types.ts)
\* A content block as it arrives; the fields a variant does not have are blank.
TextBlock(t) ==
    [type |-> "text", text |-> t, id |-> "", name |-> "",
     input |-> JObj(<<>>), tool_use_id |-> "", content |-> NoJson]
ToolUseBlock(id, name, input) ==
    [type |-> "tool_use", text |-> <<>>, id |-> id, name |-> name,
     input |-> input, tool_use_id |-> "", content |-> NoJson]
ToolResultBlock(tuid, content) ==
    [type |-> "tool_result", text |-> <<>>, id |-> "", name |-> "",
     input |-> JObj(<<>>), tool_use_id |-> tuid, content |-> content]
\* a block of a type the schema does not know
ImageBlock ==
    [type |-> "image", text |-> <<>>, id |-> "", name |-> "",
     input |-> JObj(<<>>), tool_use_id |-> "", content |-> NoJson]

StringContent(s) == [kind |-> "string", str |-> s, blocks |-> <<>>]
BlockContent(bs) == [kind |-> "blocks", str |-> <<>>, blocks |-> bs]
NumberContent    == [kind |-> "number", str |-> <<>>, blocks |-> <<>>]
Msg(role, content) == [role |-> role, content |-> content]

ToolDecl(name, description, schema) ==
    [name |-> name, description |-> description, input_schema |-> schema]

\* ContentBlockSchema: { type: 'text', text: string }
ContentBlockSchema(b) == b.type = "text"
\* ToolUseBlockSchema: { type: 'tool_use', id, name, input: record }
ToolUseBlockSchema(b) == b.type = "tool_use" /\ b.input.kind = "obj"
\* ToolResultBlockSchema: { type: 'tool_result', tool_use_id, content: any };
\* z.any() also accepts a block that has no content key
ToolResultBlockSchema(b) == b.type = "tool_result"

\* MessageSchema with role: z.string() in place of the enum
MessageSchemaAnyRole(m) ==
    \/ m.content.kind = "string"
    \/ /\ m.content.kind = "blocks"
       /\ \A i \in 1..Len(m.content.blocks) :
             \/ ContentBlockSchema(m.content.blocks[i])
             \/ ToolUseBlockSchema(m.content.blocks[i])
             \/ ToolResultBlockSchema(m.content.blocks[i])

MessageSchema(m) ==
    /\ m.role \in {"user", "assistant"}
    /\ \/ m.content.kind = "string"
       \/ /\ m.content.kind = "blocks"
          /\ \A i \in 1..Len(m.content.blocks) :
                \/ ContentBlockSchema(m.content.blocks[i])
                \/ ToolUseBlockSchema(m.content.blocks[i])
                \/ ToolResultBlockSchema(m.content.blocks[i])

ToolSchema(t) ==
    /\ t.name.has
    /\ t.input_schema.has /\ t.input_schema.val.kind = "obj"

EmptyRequest ==
    [model |-> "", messages |-> <<>>, max_tokens |-> 0, temperature |-> "",
     stream |-> FALSE, tools |-> [has |-> FALSE, val |-> <<>>], tool_choice |-> ""]

\* MessagesRequestSchema.parse(body): [ok, request], the defaults filled in
MessagesRequestSchema(body) ==
    LET valid ==
            /\ body.model.has
            /\ body.messages.has
            /\ \A i \in 1..Len(body.messages.val) : MessageSchema(body.messages.val[i])
            /\ body.tools.has =>
                  \A i \in 1..Len(body.tools.val) : ToolSchema(body.tools.val[i])
    IN  IF ~valid THEN [ok |-> FALSE, request |-> EmptyRequest]
        ELSE [ok |-> TRUE,
              request |->
                [model       |-> body.model.val,
                 messages    |-> body.messages.val,
                 max_tokens  |-> IF body.max_tokens.has THEN body.max_tokens.val
                                 ELSE DEFAULT_MAX_TOKENS,
                 temperature |-> IF body.temperature.has THEN body.temperature.val
                                 ELSE DEFAULT_TEMPERATURE,
                 stream      |-> IF body.stream.has THEN body.stream.val ELSE FALSE,
                 tools       |-> body.tools,
                 tool_choice |-> IF body.tool_choice.has THEN body.tool_choice.val
                                 ELSE DEFAULT_TOOL_CHOICE]]

\* ------------------------------------------------ converters (converters.ts)
\* parts.join(sep)
RECURSIVE join(_, _)
join(parts, sep) ==
    IF parts = <<>> THEN <<>>
    ELSE IF Len(parts) = 1 THEN parts[1]
    ELSE parts[1] \o <<sep>> \o join(Tail(parts), sep)

\* `${JSON.stringify(x)}` of a value that may be undefined
TemplateJSON(opt) == IF opt.has THEN JSONstringify(opt.val) ELSE <<"undefined">>

\* BlockText with the tool result serialized as on the logging line above it
\* (indented) and tagged with the id it answers
BlockTextLogged(block) ==
    CASE block.type = "text" -> block.text
      [] block.type = "tool_use" ->
            <<"[Tool Use: ", block.name, "] ">> \o JSONstringify(block.input)
      [] block.type = "tool_result" ->
            <<"<tool_result>", block.tool_use_id>>
            \o (IF block.content.has THEN JSONstringifyIndented(block.content.val)
                ELSE <<"undefined">>)
            \o <<"</tool_result>">>

\* the text one block pushes onto parts
BlockText(block) ==
    CASE block.type = "text" -> block.text
      [] block.type = "tool_use" ->
            <<"[Tool Use: ", block.name, "] ">> \o JSONstringify(block.input)
      [] block.type = "tool_result" ->
            <<"<tool_result>">> \o TemplateJSON(block.content) \o <<"</tool_result>">>

\* the inner loop of convertMessages: one push per recognised block
RECURSIVE PushBlocks(_, _)
PushBlocks(blocks, parts) ==
    IF blocks = <<>> THEN parts
    ELSE PushBlocks(Tail(blocks),
                    IF Head(blocks).type \in {"text", "tool_use", "tool_result"}
                    THEN Append(parts, BlockText(Head(blocks)))
                    ELSE parts)

ConvertMessage(m) ==
    IF m.content.kind = "string"
    THEN [role |-> m.role, content |-> m.content.str]
    ELSE [role |-> m.role, content |-> join(PushBlocks(m.content.blocks, <<>>), NL)]

\* a conversion loop that skips a message that flattens to nothing
RECURSIVE ConvertLoopSkipEmpty(_, _)
ConvertLoopSkipEmpty(messages, converted) ==
    IF messages = <<>> THEN converted
    ELSE ConvertLoopSkipEmpty(
             Tail(messages),
             IF ConvertMessage(Head(messages)).content = <<>>
             THEN converted
             ELSE Append(converted, ConvertMessage(Head(messages))))

RECURSIVE ConvertLoop(_, _)
ConvertLoop(messages, converted) ==
    IF messages = <<>> THEN converted
    ELSE ConvertLoop(Tail(messages), Append(converted, ConvertMessage(Head(messages))))

convertMessages(messages) == ConvertLoop(messages, <<>>)

\* ConvertTool with the description falling back to the tool's name
ConvertToolNameAsDescription(t) ==
    [type |-> "function",
     function |-> [name        |-> t.name.val,
                   description |-> IF t.description.has /\ t.description.val # ""
                                   THEN t.description.val ELSE t.name.val,
                   parameters  |-> t.input_schema.val]]

ConvertTool(t) ==
    [type |-> "function",
     function |-> [name        |-> t.name.val,
                   description |-> IF t.description.has /\ t.description.val # ""
                                   THEN t.description.val ELSE "",
                   parameters  |-> t.input_schema.val]]

convertTools(tools) == [i \in 1..Len(tools) |-> ConvertTool(tools[i])]

\* one iteration of the loop of convertToolCallsToAnthropic, JSON.parse succeeding
ToolUseOf(call, arguments_) ==
    [type |-> "tool_use", text |-> "", id |-> call.id,
     name |-> call.function.name, input |-> arguments_]

SyntaxError == [isError |-> TRUE, name |-> "SyntaxError", hasMessage |-> TRUE,
                message |-> "Unexpected token in JSON"]

\* the loop body with JSON.parse guarded: arguments that do not parse become {}
ConvertCallDefaultInput(call, content) ==
    LET parsed == JSONparse(call.function.arguments) IN
    [threw |-> FALSE,
     content |-> Append(content,
                        ToolUseOf(call, IF parsed.ok THEN parsed.val ELSE JObj(<<>>))),
     error |-> SyntaxError]

\* what the loop does with one call: push, or throw out of the function
ConvertCall(call, content) ==
    LET parsed == JSONparse(call.function.arguments) IN
    IF parsed.ok
    THEN [threw |-> FALSE, content |-> Append(content, ToolUseOf(call, parsed.val)),
          error |-> SyntaxError]
    ELSE [threw |-> TRUE, content |-> content, error |-> SyntaxError]

\* convertToolCallsToAnthropic: [threw, content, error]; content is what had
\* been pushed when it returned or threw
RECURSIVE ToolCallLoop(_, _)
ToolCallLoop(toolCalls, content) ==
    IF toolCalls = <<>>
    THEN [threw |-> FALSE, content |-> content, error |-> SyntaxError]
    ELSE LET step == ConvertCall(Head(toolCalls), content) IN
         IF step.threw THEN step ELSE ToolCallLoop(Tail(toolCalls), step.content)

convertToolCallsToAnthropic(toolCalls) == ToolCallLoop(toolCalls, <<>>)

\* ------------------------------------------------------- inputs: requests
ArgsQX == JObj(<<KV("q", JStr("x"))>>)
OkTrue == JObj(<<KV("ok", JTrue)>>)

BlockPool ==
    {TextBlock(<<"hi">>), TextBlock(<<>>),
     ToolUseBlock("toolu_1", "search", ArgsQX),
     ToolUseBlock("toolu_2", "search", ArgsQX),
     ToolResultBlock("toolu_1", Some(OkTrue)),
     ToolResultBlock("toolu_2", NoJson)}

Hello == Msg("user", StringContent(<<"hello", NL, "there">>))

MsgPool ==
    {Hello,
     Msg("assistant", StringContent(<<>>)),
     Msg("assistant", BlockContent(<<>>)),
     Msg("user", BlockContent(<<ToolResultBlock("toolu_1", Some(JStr("x")))>>))}

Conversations ==
    SeqsUpTo(MsgPool, MaxMsgs)
    \cup {<<Msg("assistant", BlockContent(bs))>> : bs \in SeqsUpTo(BlockPool, MaxBlocks)}

\* conversations the schema rejects, the offending message last
BadConversations ==
    {<<Hello, Msg("system", StringContent(<<"be brief">>))>>,
     <<Hello, Msg("user", NumberContent)>>,
     <<Hello, Msg("user", BlockContent(<<TextBlock(<<"hi">>), ImageBlock>>))>>,
     <<Msg("assistant",
           BlockContent(<<ToolUseBlock("toolu_1", "search", JArr(<<JNum1>>))>>))>>}

NoStr == [has |-> FALSE, val |-> ""]
Schema == JObj(<<KV("type", JStr("object"))>>)

ToolPool ==
    {ToolDecl(Some("search"), NoStr, Some(Schema)),
     ToolDecl(Some("search"), Some("find things"), Some(JObj(<<>>))),
     ToolDecl(Some("lookup"), Some(""), Some(Schema))}

BadToolLists ==
    {<<ToolDecl(NoStr, Some("nameless"), Some(Schema))>>,
     <<ToolDecl(Some("search"), NoStr, Some(Schema)),
       ToolDecl(Some("lookup"), NoStr, NoJson)>>,
     <<ToolDecl(Some("search"), NoStr, Some(JArr(<<>>)))>>}

MaxTokensPool == {-1, 0, 1, DEFAULT_MAX_TOKENS, GROQ_MAX_OUTPUT_TOKENS - 1,
                  GROQ_MAX_OUTPUT_TOKENS, GROQ_MAX_OUTPUT_TOKENS + 1, 200000}

NoInt   == [has |-> FALSE, val |-> 0]
NoBool  == [has |-> FALSE, val |-> FALSE]
NoTools == [has |-> FALSE, val |-> <<>>]

\* a JSON object body; kind "null" is the body `null`, "notjson" a body that
\* c.req.json() cannot parse
Body(model, messages, max_tokens, tools) ==
    [kind |-> "object", model |-> model, messages |-> messages,
     max_tokens |-> max_tokens, temperature |-> NoStr, stream |-> NoBool,
     tools |-> tools, tool_choice |-> NoStr]

PlainBody == Body(Some("claude-3"), Some(<<Hello>>), NoInt, NoTools)

Bodies ==
    {Body(Some("claude-3"), Some(c), NoInt, NoTools) : c \in Conversations}
    \cup {Body(Some("claude-3"), Some(<<Hello>>), Some(n), NoTools) : n \in MaxTokensPool}
    \cup {Body(Some("claude-3"), Some(<<Hello>>), NoInt, Some(ts)) :
            ts \in SeqsUpTo(ToolPool, MaxTools)}
    \cup {[PlainBody EXCEPT !.temperature = Some("0"), !.stream = Some(TRUE),
                            !.tool_choice = Some("none")]}
    \cup {Body(Some("claude-3"), Some(c), NoInt, NoTools) : c \in BadConversations}
    \cup {Body(Some("claude-3"), Some(<<Hello>>), Some(64), Some(ts)) : ts \in BadToolLists}
    \cup {Body(NoStr, Some(<<Hello>>), NoInt, NoTools),
          Body(Some("claude-3"), [has |-> FALSE, val |-> <<>>], NoInt, NoTools),
          [PlainBody EXCEPT !.kind = "null"],
          [PlainBody EXCEPT !.kind = "notjson"]}

\* ------------------------------------------------------ inputs: upstream
Call(id, name, arguments) ==
    [id |-> id, type |-> "function",
     function |-> [name |-> name, arguments |-> arguments]]

CallPool ==
    {Call("call_1", "search", JSONstringify(ArgsQX)),
     Call("call_2", "lookup", <<"{", SP, "}", NL>>),
     Call("call_3", "search", <<"{", Q, "q", Q, ":">>),
     Call("call_4", "search", <<>>)}

NoCalls == [has |-> FALSE, val |-> <<>>]
Usage(p, c) == [has |-> TRUE, val |-> [prompt_tokens |-> p, completion_tokens |-> c]]
NoUsage == [has |-> FALSE, val |-> [prompt_tokens |-> 0, completion_tokens |-> 0]]

Choice(content, tool_calls, finish_reason) ==
    [message |-> [content |-> content, tool_calls |-> tool_calls],
     finish_reason |-> finish_reason]
Completion(choices, usage) == [choices |-> choices, usage |-> usage]

Completions ==
    {Completion(<<Choice(NoStr, Some(cs), "tool_calls")>>, Usage(12, 7)) :
        cs \in SeqsUpTo(CallPool, MaxCalls) \ {<<>>}}
    \cup {Completion(<<Choice(Some("let me look"), Some(<<c>>), f)>>, Usage(12, 7)) :
            c \in CallPool, f \in {"tool_calls", "stop", "length"}}
    \cup {Completion(<<Choice(t, tc, f)>>, Usage(12, 7)) :
            t \in {NoStr, Some(""), Some("hello")},
            tc \in {NoCalls, Some(<<>>)},
            f \in {"stop", "length"}}
    \cup {Completion(<<Choice(Some("hello"), NoCalls, "stop")>>, NoUsage),
          Completion(<<>>, Usage(12, 0)),
          Completion(<<Choice(Some("first"), NoCalls, "stop"),
                       Choice(NoStr, Some(<<Call("call_1", "search", <<"null">>)>>),
                              "tool_calls")>>, Usage(12, 7))}

\* What client.chat.completions.create can reject with.  The client is an
\* external collaborator: any value can be thrown, an Error (which always has
\* a message string, possibly empty) or something that is not an Error.
Thrown(isError, name, hasMessage, message) ==
    [isError |-> isError, name |-> name, hasMessage |-> hasMessage, message |-> message]

UpstreamFailures ==
    {Thrown(TRUE, "AuthenticationError", TRUE, "401 Invalid API Key"),
     Thrown(TRUE, "Error", TRUE, ""),
     Thrown(FALSE, "object", TRUE, "rate limit reached"),
     Thrown(FALSE, "undefined", FALSE, "")}

MessageIds == {"msg_0123456789ab", "msg_fedcba987654"}

\* ------------------------------------------- the handler (POST /v1/messages)
Requests == {"r1", "r2"}

VARIABLES
    env,            \* c.env.GROQ_API_KEY ("" when the binding is not set)
    pc,             \* per request: idle, start, json, upstream, done
    body,           \* per request: the body the caller sent
    request,        \* per request: the validated request, once parsed
    upstreamCalls,  \* per request: the chat-completion requests issued
    completion,     \* per request: what the upstream call resolved to
    error,          \* per request: the value the catch clause caught
    responses       \* per request: the responses sent to the caller

vars == <<env, pc, body, request, upstreamCalls, completion, error, responses>>

NoRequest    == [has |-> FALSE, val |-> EmptyRequest]
NoCompletion == [has |-> FALSE, val |-> Completion(<<>>, NoUsage)]
NoError      == [has |-> FALSE, val |-> Thrown(FALSE, "", FALSE, "")]
NoEnvelope ==
    [id |-> "", model |-> "", role |-> "", type |-> "", content |-> <<>>,
     stop_reason |-> "", stop_sequence |-> NoStr,
     usage |-> [input_tokens |-> 0, output_tokens |-> 0]]
NoErrorBody == [type |-> "", message |-> ""]

\* c.json({ error: { type, message } }, status)
ErrorResponse(type, message, status) ==
    [status |-> status, kind |-> "error",
     error |-> [type |-> type, message |-> message], envelope |-> NoEnvelope]
\* c.json(response): status 200
EnvelopeResponse(envelope) ==
    [status |-> 200, kind |-> "envelope", error |-> NoErrorBody, envelope |-> envelope]

\* a catch clause that looks for a message instead of the Error class
CatchClauseByMessage(e) ==
    IF e.hasMessage /\ e.message # ""
    THEN ErrorResponse("invalid_request_error", e.message, 400)
    ELSE ErrorResponse("internal_server_error", "An unexpected error occurred", 500)

\* the catch clause: an Error becomes a 400 carrying its message, anything
\* else a 500 with a fixed message
CatchClause(e) ==
    IF e.isError
    THEN ErrorResponse("invalid_request_error", e.message, 400)
    ELSE ErrorResponse("internal_server_error", "An unexpected error occurred", 500)

Min(a, b) == IF a <= b THEN a ELSE b

\* Math.min(request.max_tokens || CAP, CAP): 0 is falsy
CapMaxTokens(max_tokens) ==
    Min(IF max_tokens # 0 THEN max_tokens ELSE GROQ_MAX_OUTPUT_TOKENS,
        GROQ_MAX_OUTPUT_TOKENS)

\* the argument of client.chat.completions.create
UpstreamRequest(req) ==
    [model       |-> GROQ_MODEL,
     messages    |-> convertMessages(req.messages),
     temperature |-> req.temperature,
     max_tokens  |-> CapMaxTokens(req.max_tokens),
     tools       |-> IF req.tools.has
                     THEN Some(convertTools(req.tools.val))
                     ELSE [has |-> FALSE, val |-> <<>>],
     tool_choice |-> req.tool_choice]

TypeError(what) == Thrown(TRUE, "TypeError", TRUE, what)
ZodError == Thrown(TRUE, "ZodError", TRUE, "zod issues")

\* what the handler does with the body once c.req.json() settles, up to the
\* upstream call: [threw, error, request]
ParseBody(b) ==
    LET parsed == MessagesRequestSchema(b) IN
    CASE b.kind = "notjson" ->
            [threw |-> TRUE, request |-> EmptyRequest,
             error |-> Thrown(TRUE, "SyntaxError", TRUE, "Unexpected token in JSON")]
      [] b.kind = "null" ->
            [threw |-> TRUE, request |-> EmptyRequest,
             error |-> TypeError("Cannot read properties of null (reading 'model')")]
      [] b.kind = "object" /\ ~parsed.ok ->
            [threw |-> TRUE, request |-> EmptyRequest, error |-> ZodError]
      [] OTHER ->
            [threw |-> FALSE, request |-> parsed.request, error |-> NoError.val]

TextOut(text) ==
    [type |-> "text", text |-> text, id |-> "", name |-> "", input |-> JNull]

\* the response object literal
Envelope(id, content, stopReason, usage) ==
    [id |-> id, model |-> "groq/moonshotai/kimi-k2-instruct", role |-> "assistant",
     type |-> "message", content |-> content, stop_reason |-> stopReason,
     stop_sequence |-> NoStr,
     usage |-> [input_tokens  |-> IF usage.has THEN usage.val.prompt_tokens ELSE 0,
                output_tokens |-> IF usage.has THEN usage.val.completion_tokens ELSE 0]]

\* the response built with the upstream finish reason mapped onto stop_reason
BuildResponseFinishReason(c, id) ==
    IF c.choices = <<>>
    THEN [threw |-> TRUE, response |-> EnvelopeResponse(NoEnvelope),
          error |-> TypeError("Cannot read properties of undefined (reading 'message')")]
    ELSE LET message == c.choices[1].message
             conv    == convertToolCallsToAnthropic(message.tool_calls.val)
             stop    == IF c.choices[1].finish_reason = "length" THEN "max_tokens"
                        ELSE IF c.choices[1].finish_reason = "tool_calls" THEN "tool_use"
                        ELSE "end_turn"
         IN  IF message.tool_calls.has /\ Len(message.tool_calls.val) > 0
             THEN IF conv.threw
                  THEN [threw |-> TRUE, response |-> EnvelopeResponse(NoEnvelope),
                        error |-> conv.error]
                  ELSE [threw |-> FALSE, error |-> NoError.val,
                        response |->
                          EnvelopeResponse(Envelope(id, conv.content, stop, c.usage))]
             ELSE [threw |-> FALSE, error |-> NoError.val,
                   response |->
                     EnvelopeResponse(
                       Envelope(id,
                                <<TextOut(IF message.content.has THEN message.content.val
                                          ELSE "")>>,
                                stop, c.usage))]

\* from the completion to the response: [threw, error, response]
BuildResponse(c, id) ==
    IF c.choices = <<>>
    THEN [threw |-> TRUE, response |-> EnvelopeResponse(NoEnvelope),
          error |-> TypeError("Cannot read properties of undefined (reading 'message')")]
    ELSE LET message == c.choices[1].message
             conv    == convertToolCallsToAnthropic(message.tool_calls.val)
         IN  IF message.tool_calls.has /\ Len(message.tool_calls.val) > 0
             THEN IF conv.threw
                  THEN [threw |-> TRUE, response |-> EnvelopeResponse(NoEnvelope),
                        error |-> conv.error]
                  ELSE [threw |-> FALSE, error |-> NoError.val,
                        response |->
                          EnvelopeResponse(Envelope(id, conv.content, "tool_use", c.usage))]
             ELSE [threw |-> FALSE, error |-> NoError.val,
                   response |->
                     EnvelopeResponse(
                       Envelope(id,
                                <<TextOut(IF message.content.has THEN message.content.val
                                          ELSE "")>>,
                                "end_turn", c.usage))]

\* c.json(...) returned from the handler: one more response on the wire
Send(r, resp) == responses' = [responses EXCEPT ![r] = Append(@, resp)]

\* a throw that finds the envelope already on the wire
ThrowAfterPartial(r, e) ==
    /\ error' = [error EXCEPT ![r] = Some(e)]
    /\ responses' = [responses EXCEPT ![r] =
                        Append(Append(@, EnvelopeResponse(NoEnvelope)), CatchClause(e))]
    /\ pc' = [pc EXCEPT ![r] = "done"]

\* throw e inside the try block: the catch clause answers
Throw(r, e) ==
    /\ error' = [error EXCEPT ![r] = Some(e)]
    /\ Send(r, CatchClause(e))
    /\ pc' = [pc EXCEPT ![r] = "done"]

\* the handler without the early return for a missing credential
StartWithoutCredentialCheck(r) ==
    /\ pc[r] = "start"
    /\ pc' = [pc EXCEPT ![r] = "json"]
    /\ UNCHANGED <<env, body, request, upstreamCalls, completion, error, responses>>

\* lines 33-51: the credential check, then await c.req.json()
Start(r) ==
    /\ pc[r] = "start"
    /\ IF env = ""
       THEN /\ Send(r, ErrorResponse("invalid_request_error",
                                     "GROQ_API_KEY environment variable is required", 400))
            /\ pc' = [pc EXCEPT ![r] = "done"]
       ELSE /\ pc' = [pc EXCEPT ![r] = "json"]
            /\ UNCHANGED responses
    /\ UNCHANGED <<env, body, request, upstreamCalls, completion, error>>

\* lines 51-72: the body is read, validated and converted, and the upstream
\* call is issued; a throw on the way goes to the catch clause
Prepare(r) ==
    /\ pc[r] = "json"
    /\ LET p == ParseBody(body[r]) IN
       IF p.threw
       THEN /\ Throw(r, p.error)
            /\ UNCHANGED <<request, upstreamCalls>>
       ELSE /\ request' = [request EXCEPT ![r] = Some(p.request)]
            /\ upstreamCalls' =
                  [upstreamCalls EXCEPT ![r] = Append(@, UpstreamRequest(p.request))]
            /\ pc' = [pc EXCEPT ![r] = "upstream"]
            /\ UNCHANGED <<error, responses>>
    /\ UNCHANGED <<env, body, completion>>

\* the response built on a content array that lives at module level, so that
\* the tool_use blocks answered to the other request are still in it
UpstreamReturnsSharedContent(r) ==
    /\ pc[r] = "upstream"
    /\ \E c \in Completions, id \in MessageIds :
          /\ completion' = [completion EXCEPT ![r] = Some(c)]
          /\ LET b     == BuildResponse(c, id)
                 q     == CHOOSE o \in Requests : o # r
                 stale == IF responses[q] # <<>>
                             /\ responses[q][1].envelope.stop_reason = "tool_use"
                          THEN responses[q][1].envelope.content ELSE <<>>
             IN  IF b.threw
                 THEN Throw(r, b.error)
                 ELSE /\ Send(r, IF b.response.envelope.stop_reason = "tool_use"
                                 THEN [b.response EXCEPT !.envelope.content = stale \o @]
                                 ELSE b.response)
                      /\ pc' = [pc EXCEPT ![r] = "done"]
                      /\ UNCHANGED error
    /\ UNCHANGED <<env, body, request, upstreamCalls>>

\* lines 72-110: the upstream call resolves and the response is built
UpstreamReturns(r) ==
    /\ pc[r] = "upstream"
    /\ \E c \in Completions, id \in MessageIds :
          /\ completion' = [completion EXCEPT ![r] = Some(c)]
          /\ LET b == BuildResponse(c, id) IN
             IF b.threw
             THEN Throw(r, b.error)
             ELSE /\ Send(r, b.response)
                  /\ pc' = [pc EXCEPT ![r] = "done"]
                  /\ UNCHANGED error
    /\ UNCHANGED <<env, body, request, upstreamCalls>>

\* a rejected upstream call issued once more before giving up
UpstreamThrowsRetry(r) ==
    /\ pc[r] = "upstream"
    /\ IF Len(upstreamCalls[r]) < 2
       THEN /\ upstreamCalls' = [upstreamCalls EXCEPT ![r] = Append(@, @[1])]
            /\ UNCHANGED <<pc, error, responses>>
       ELSE /\ \E e \in UpstreamFailures : Throw(r, e)
            /\ UNCHANGED upstreamCalls
    /\ UNCHANGED <<env, body, request, completion>>

\* line 72: the upstream call rejects
UpstreamThrows(r) ==
    /\ pc[r] = "upstream"
    /\ \E e \in UpstreamFailures : Throw(r, e)
    /\ UNCHANGED <<env, body, request, upstreamCalls, completion>>

\* one request in flight, any body, the credential set or not
Init ==
    /\ env \in {"", "gsk_live"}
    /\ \E b \in Bodies : body = [r \in Requests |-> IF r = "r1" THEN b ELSE PlainBody]
    /\ pc = [r \in Requests |-> IF r = "r1" THEN "start" ELSE "idle"]
    /\ request = [r \in Requests |-> NoRequest]
    /\ upstreamCalls = [r \in Requests |-> <<>>]
    /\ completion = [r \in Requests |-> NoCompletion]
    /\ error = [r \in Requests |-> NoError]
    /\ responses = [r \in Requests |-> <<>>]

\* bodies for two requests in flight: a plain one, one with tool blocks and
\* tools, and one the schema rejects
TwoBodies ==
    {PlainBody,
     Body(Some("claude-3"),
          Some(<<Hello,
                 Msg("assistant",
                     BlockContent(<<TextBlock(<<"hi">>),
                                    ToolUseBlock("toolu_1", "search", ArgsQX)>>)),
                 Msg("user",
                     BlockContent(<<ToolResultBlock("toolu_1", Some(OkTrue))>>))>>),
          Some(0),
          Some(<<ToolDecl(Some("search"), NoStr, Some(Schema))>>)),
     Body(Some("claude-3"),
          Some(<<Hello, Msg("system", StringContent(<<"be brief">>))>>),
          NoInt, NoTools)}

\* two requests in flight at once, each with a body of its own
InitTwo ==
    /\ env \in {"", "gsk_live"}
    /\ body \in [Requests -> TwoBodies]
    /\ pc = [r \in Requests |-> "start"]
    /\ request = [r \in Requests |-> NoRequest]
    /\ upstreamCalls = [r \in Requests |-> <<>>]
    /\ completion = [r \in Requests |-> NoCompletion]
    /\ error = [r \in Requests |-> NoError]
    /\ responses = [r \in Requests |-> <<>>]

Next ==
    \E r \in Requests :
        \/ Start(r)
        \/ Prepare(r)
        \/ UpstreamReturns(r)
        \/ UpstreamThrows(r)

\* the handlers of the two requests interleave at their await points
SpecTwo == InitTwo /\ [][Next]_vars

Spec == Init /\ [][Next]_vars

\* ------------------------------------------------------------------ claims
Sent(r)     == upstreamCalls[r][1]
Answer(r)   == responses[r][1]
Calling(r)  == upstreamCalls[r] # <<>>

\* C1: convertMessages maps the conversation position by position: the
\* messages sent upstream are as many as the validated ones, message i keeps
\* the role of message i (a message with no blocks is still sent), and a
\* plain string content is sent as that same string.
C1_PositionByPosition ==
    \A r \in Requests :
        Calling(r) =>
            LET input  == request[r].val.messages
                output == Sent(r).messages
            IN  /\ Len(output) = Len(input)
                /\ \A i \in 1..Len(input) :
                      /\ output[i].role = input[i].role
                      /\ input[i].content.kind = "string" =>
                            output[i].content = input[i].content.str

\* C1 witness: a two-message conversation, an assistant message with an empty
\* block sequence followed by a user message with string content, was converted
C1_Witness ==
    /\ Calling("r1")
    /\ request["r1"].val.messages = <<Msg("assistant", BlockContent(<<>>)), Hello>>
    /\ Len(Sent("r1").messages) = 2
    /\ Sent("r1").messages[2].content = <<"hello", NL, "there">>

\* the line the specification gives for one block
RECURSIVE JoinedLines(_, _)
JoinedLines(lines, n) ==
    IF n = 0 THEN <<>>
    ELSE IF n = 1 THEN lines[1]
    ELSE JoinedLines(lines, n - 1) \o <<NL>> \o lines[n]

IsCompactJSONOf(text, value) ==
    /\ \A k \in 1..Len(text) : text[k] \notin {SP, NL}
    /\ JSONparse(text).ok
    /\ JSONparse(text).val = value

\* line is what the block must flatten to
IsLineOf(line, b) ==
    CASE b.type = "text" -> line = b.text
      [] b.type = "tool_use" ->
            /\ Len(line) > 3
            /\ SubSeq(line, 1, 3) = <<"[Tool Use: ", b.name, "] ">>
            /\ IsCompactJSONOf(SubSeq(line, 4, Len(line)), b.input)
      [] b.type = "tool_result" ->
            /\ Len(line) > 2
            /\ line[1] = "<tool_result>"
            /\ line[Len(line)] = "</tool_result>"
            /\ b.content.has =>
                  IsCompactJSONOf(SubSeq(line, 2, Len(line) - 1), b.content.val)

WithIds(m, id) ==
    [m EXCEPT !.content.blocks =
        [k \in 1..Len(@) |-> [@[k] EXCEPT !.id = IF @ = "" THEN "" ELSE id,
                                          !.tool_use_id = IF @ = "" THEN "" ELSE id]]]

C2_WitnessToolResult ==
    /\ Calling("r1")
    /\ request["r1"].val.messages =
          <<Msg("assistant",
                BlockContent(<<ToolResultBlock("toolu_1", Some(OkTrue)),
                               ToolUseBlock("toolu_2", "search", ArgsQX)>>))>>
    /\ SubSeq(Sent("r1").messages[1].content, 1, 8) =
          <<"<tool_result>", "{", Q, "ok", Q, ":", "true", "}">>
    /\ Sent("r1").messages[1].content[9] = "</tool_result>"
    /\ Sent("r1").messages[1].content[10] = NL

\* C3: convertTools returns one function tool per declaration, in order and
\* without deduplication: type "function", the declaration's name and
\* input_schema unchanged, its description when it has one and "" when not.
C3_ToolsStructurePreserved ==
    \A r \in Requests :
        (Calling(r) /\ request[r].val.tools.has) =>
            LET decls == request[r].val.tools.val
                fns   == Sent(r).tools.val
            IN  /\ Sent(r).tools.has
                /\ Len(fns) = Len(decls)
                /\ \A i \in 1..Len(decls) :
                      /\ fns[i].type = "function"
                      /\ fns[i].function.name = decls[i].name.val
                      /\ fns[i].function.parameters = decls[i].input_schema.val
                      /\ fns[i].function.description =
                            (IF decls[i].description.has
                             THEN decls[i].description.val ELSE "")

\* C3 witness: two declarations of the same name, the first without a
\* description, were both sent, the first with description ""
C3_Witness ==
    /\ Calling("r1")
    /\ request["r1"].val.tools.has
    /\ Len(request["r1"].val.tools.val) = 2
    /\ request["r1"].val.tools.val[1].name = request["r1"].val.tools.val[2].name
    /\ ~request["r1"].val.tools.val[1].description.has
    /\ request["r1"].val.tools.val[2].description = Some("find things")
    /\ Len(Sent("r1").tools.val) = 2
    /\ Sent("r1").tools.val[1].function.description = ""
    /\ Sent("r1").tools.val[2].function.description = "find things"

\* the first choice of the completion the upstream call resolved to
Upstream(r)      == completion[r].val.choices[1].message
UpstreamCalls(r) == IF Upstream(r).tool_calls.has THEN Upstream(r).tool_calls.val ELSE <<>>
Answered(r)      == pc[r] = "done" /\ completion[r].has /\ completion[r].val.choices # <<>>
AllParse(calls)  == \A k \in 1..Len(calls) : JSONparse(calls[k].function.arguments).ok

\* C4: the stop reason follows from the tool calls of the first choice alone.
\* With tool calls (whose arguments all parse) the answer has stop_reason
\* tool_use and exactly one tool_use block per call, in order, with the call's
\* id and name, and no text block; without, stop_reason end_turn and one text
\* block holding the upstream content, "" for null.  No answer has another
\* stop reason, and stop_sequence is always null.
C4_StopReasonFromToolCalls ==
    \A r \in Requests :
        /\ Answered(r) =>
              LET calls == UpstreamCalls(r)
                  e     == Answer(r).envelope
              IN  /\ (calls # <<>> /\ AllParse(calls)) =>
                        /\ Answer(r).kind = "envelope"
                        /\ e.stop_reason = "tool_use"
                        /\ Len(e.content) = Len(calls)
                        /\ \A k \in 1..Len(calls) :
                              /\ e.content[k].type = "tool_use"
                              /\ e.content[k].id = calls[k].id
                              /\ e.content[k].name = calls[k].function.name
                  /\ calls = <<>> =>
                        /\ Answer(r).kind = "envelope"
                        /\ e.stop_reason = "end_turn"
                        /\ Len(e.content) = 1
                        /\ e.content[1].type = "text"
                        /\ e.content[1].text = (IF Upstream(r).content.has
                                                THEN Upstream(r).content.val ELSE "")
        /\ \A i \in 1..Len(responses[r]) :
              responses[r][i].kind = "envelope" =>
                  /\ responses[r][i].envelope.stop_reason \in {"tool_use", "end_turn"}
                  /\ ~responses[r][i].envelope.stop_sequence.has

\* C4 witness: the upstream stopped for length without tool calls and the
\* answer is end_turn with the upstream text
C4_Witness ==
    /\ Answered("r1")
    /\ completion["r1"].val.choices[1].finish_reason = "length"
    /\ UpstreamCalls("r1") = <<>>
    /\ Upstream("r1").content = Some("hello")
    /\ Answer("r1").envelope.stop_reason = "end_turn"
    /\ Answer("r1").envelope.content = <<TextOut("hello")>>

\* C4, the other branch: the upstream reported finish reason stop, sent text
\* and one tool call; the answer is tool_use with only that call's block
C4_WitnessToolUse ==
    /\ Answered("r1")
    /\ completion["r1"].val.choices[1].finish_reason = "stop"
    /\ Upstream("r1").content = Some("let me look")
    /\ Len(UpstreamCalls("r1")) = 1
    /\ Answer("r1").envelope.stop_reason = "tool_use"
    /\ Len(Answer("r1").envelope.content) = 1
    /\ Answer("r1").envelope.content[1].id = "call_1"

\* C5 (as claimed): the max_tokens sent upstream is min(requested, 16384), so
\* a requested value up to the cap, 0 included, is sent as it is.
C5_MaxTokensIsMin ==
    \A r \in Requests :
        Calling(r) =>
            Sent(r).max_tokens =
                (IF request[r].val.max_tokens <= 16384
                 THEN request[r].val.max_tokens ELSE 16384)

\* C5, what the code does keep: every requested value other than 0 is sent as
\* min(requested, 16384), and a requested 0 is sent as 16384.
C5_MinExceptZero ==
    \A r \in Requests :
        Calling(r) =>
            LET asked == request[r].val.max_tokens IN
            Sent(r).max_tokens =
                (IF asked = 0 \/ asked > 16384 THEN 16384 ELSE asked)

\* C6: when a tool call of the upstream answer has arguments that are not
\* JSON, the request is answered with the 400 invalid_request_error body and
\* nothing else: no envelope, no tool_use block, not even for the calls
\* before the malformed one.
C6_MalformedArgumentsFailClosed ==
    \A r \in Requests :
        (Answered(r) /\ ~AllParse(UpstreamCalls(r))) =>
            /\ Len(responses[r]) = 1
            /\ Answer(r).kind = "error"
            /\ Answer(r).status = 400
            /\ Answer(r).error.type = "invalid_request_error"
            /\ Answer(r).envelope.content = <<>>
            /\ Answer(r).envelope.stop_reason = ""

\* C6 witness: a well-formed call followed by a call with truncated arguments
\* was answered with the 400 error body
C6_Witness ==
    /\ Answered("r1")
    /\ Len(UpstreamCalls("r1")) = 2
    /\ JSONparse(UpstreamCalls("r1")[1].function.arguments).ok
    /\ UpstreamCalls("r1")[2].function.arguments = <<"{", Q, "q", Q, ":">>
    /\ Answer("r1").status = 400
    /\ error["r1"].val.name = "SyntaxError"

\* a JSON object body that the request schema cannot accept
FailsSchema(b) ==
    /\ b.kind = "object"
    /\ \/ ~b.model.has
       \/ ~b.messages.has
       \/ \E i \in 1..Len(b.messages.val) :
             LET m == b.messages.val[i] IN
             \/ m.role \notin {"user", "assistant"}
             \/ m.content.kind \notin {"string", "blocks"}
             \/ \E k \in 1..Len(m.content.blocks) :
                   m.content.blocks[k].type \notin {"text", "tool_use", "tool_result"}
       \/ /\ b.tools.has
          /\ \E i \in 1..Len(b.tools.val) :
                ~b.tools.val[i].name.has \/ ~b.tools.val[i].input_schema.has

\* C7: a body that fails schema validation never gets as far as conversion or
\* the upstream call, and is answered with a 400 invalid_request_error body.
C7_InvalidBodyRejected ==
    \A r \in Requests :
        FailsSchema(body[r]) =>
            /\ ~request[r].has
            /\ upstreamCalls[r] = <<>>
            /\ pc[r] # "upstream"
            /\ pc[r] = "done" =>
                  /\ Len(responses[r]) = 1
                  /\ Answer(r).kind = "error"
                  /\ Answer(r).status = 400
                  /\ Answer(r).error.type = "invalid_request_error"

\* C7 witness: with the credential set, a body with a system-role message was
\* rejected by the schema and answered
C7_Witness ==
    /\ env # ""
    /\ pc["r1"] = "done"
    /\ \E i \in 1..Len(body["r1"].messages.val) : body["r1"].messages.val[i].role = "system"
    /\ error["r1"] = Some(ZodError)
    /\ Answer("r1").status = 400

\* C8 (as claimed): an exception outside the four named classes, such as the
\* runtime error of reading the first choice of a completion that has none, is
\* answered with 500 internal_server_error and a generic message, the error's
\* own message not appearing in the body.
C8_UnexpectedErrorIs500 ==
    \A r \in Requests :
        (pc[r] = "done" /\ completion[r].has /\ completion[r].val.choices = <<>>) =>
            /\ Answer(r).status = 500
            /\ Answer(r).error.type = "internal_server_error"
            /\ Answer(r).error.message = "An unexpected error occurred"
            /\ Answer(r).error.message # error[r].val.message

\* the upstream call of r was issued and rejected with error[r]
UpstreamFailed(r) ==
    pc[r] = "done" /\ Calling(r) /\ ~completion[r].has /\ error[r].has

CarriesMessage(e) == e.hasMessage /\ e.message # ""

\* C9 (as claimed): an upstream failure is answered with 400
\* invalid_request_error when it carries a message and with 500
\* internal_server_error when it carries none.
C9_ByMessage ==
    \A r \in Requests :
        UpstreamFailed(r) =>
            IF CarriesMessage(error[r].val)
            THEN Answer(r).status = 400 /\ Answer(r).error.type = "invalid_request_error"
            ELSE Answer(r).status = 500 /\ Answer(r).error.type = "internal_server_error"

\* C9 (amended): an upstream failure is answered with 400
\* invalid_request_error and the failure's message when the value thrown is an
\* Error, its message empty or not, and with 500 internal_server_error and the
\* generic message when the value thrown is not an Error, a message on it or not.
C9_ByErrorClass ==
    \A r \in Requests :
        UpstreamFailed(r) =>
            /\ Len(responses[r]) = 1
            /\ Answer(r).kind = "error"
            /\ IF error[r].val.isError
               THEN /\ Answer(r).status = 400
                    /\ Answer(r).error.type = "invalid_request_error"
                    /\ Answer(r).error.message = error[r].val.message
               ELSE /\ Answer(r).status = 500
                    /\ Answer(r).error.type = "internal_server_error"
                    /\ Answer(r).error.message = "An unexpected error occurred"

\* C9 witness: the upstream call rejected with an Error whose message is empty
\* and the answer is a 400
C9_Witness ==
    /\ UpstreamFailed("r1")
    /\ error["r1"].val.isError
    /\ error["r1"].val.message = ""
    /\ Answer("r1").status = 400

IsCompleteEnvelope(r, resp) ==
    /\ resp.kind = "envelope"
    /\ resp.status = 200
    /\ resp.error = NoErrorBody
    /\ resp.envelope.id \in MessageIds
    /\ resp.envelope.role = "assistant"
    /\ resp.envelope.type = "message"
    /\ resp.envelope.stop_reason \in {"tool_use", "end_turn"}
    /\ Len(resp.envelope.content) =
          (IF UpstreamCalls(r) = <<>> THEN 1 ELSE Len(UpstreamCalls(r)))

IsErrorOnly(resp) ==
    /\ resp.kind = "error"
    /\ resp.envelope = NoEnvelope
    /\ \/ resp.status = 400 /\ resp.error.type = "invalid_request_error"
       \/ resp.status = 500 /\ resp.error.type = "internal_server_error"

\* C10: a handled request has exactly one response, a complete envelope or an
\* error body with its status code (400 or 500), never both and never part of
\* an envelope; a failure after the upstream call succeeded gives the error
\* body alone.  Until the handler is done nothing has been sent.
C10_ExactlyOneResponse ==
    \A r \in Requests :
        /\ pc[r] # "done" => responses[r] = <<>>
        /\ pc[r] = "done" =>
              /\ Len(responses[r]) = 1
              /\ IF error[r].has \/ ~completion[r].has
                 THEN IsErrorOnly(Answer(r))
                 ELSE IsCompleteEnvelope(r, Answer(r))

\* C10 witness: the upstream call succeeded, the conversion of its second
\* tool call threw, and the one response is the error body
C10_Witness ==
    /\ Answered("r1")
    /\ Len(UpstreamCalls("r1")) = 2
    /\ error["r1"].has
    /\ Len(responses["r1"]) = 1
    /\ IsErrorOnly(Answer("r1"))

\* C11: no retries.  A request issues the upstream call at most once; not at
\* all when the credential is missing or the body fails validation; while the
\* call is pending nothing has been answered; and when the call is rejected
\* the handler answers with the error, the one call being the only one.
C11_AtMostOneUpstreamCall ==
    \A r \in Requests :
        /\ Len(upstreamCalls[r]) <= 1
        /\ (env = "" \/ FailsSchema(body[r])) => upstreamCalls[r] = <<>>
        /\ pc[r] = "upstream" =>
              /\ Len(upstreamCalls[r]) = 1
              /\ ~completion[r].has /\ ~error[r].has
              /\ responses[r] = <<>>
        /\ (pc[r] = "done" /\ Calling(r)) =>
              /\ Len(upstreamCalls[r]) = 1
              /\ Len(responses[r]) = 1
              /\ completion[r].has \/ error[r].has
        /\ UpstreamFailed(r) =>
              /\ Len(upstreamCalls[r]) = 1
              /\ Answer(r).kind = "error"
              /\ Answer(r) = CatchClause(error[r].val)

\* C11 witness: the upstream call was rejected with an authentication error
\* and the request is answered, one call issued
C11_Witness ==
    /\ UpstreamFailed("r1")
    /\ error["r1"].val.name = "AuthenticationError"
    /\ Len(upstreamCalls["r1"]) = 1
    /\ Answer("r1").status = 400

\* C13: with the credential absent the request is answered with a 400
\* invalid_request_error body, and neither the conversion of the messages and
\* tools nor the upstream call takes place.
C13_MissingCredential ==
    env = "" =>
        \A r \in Requests :
            /\ pc[r] \in {"idle", "start", "done"}
            /\ ~request[r].has
            /\ upstreamCalls[r] = <<>>
            /\ ~completion[r].has
            /\ pc[r] = "done" =>
                  /\ Len(responses[r]) = 1
                  /\ Answer(r).kind = "error"
                  /\ Answer(r).status = 400
                  /\ Answer(r).error.type = "invalid_request_error"
                  /\ Answer(r).envelope = NoEnvelope

\* C13 witness: a valid request with tools arrived while the credential was
\* absent and was answered with the 400 body
C13_Witness ==
    /\ env = ""
    /\ pc["r1"] = "done"
    /\ MessagesRequestSchema(body["r1"]).ok
    /\ body["r1"].tools.has /\ Len(body["r1"].tools.val) = 2
    /\ upstreamCalls["r1"] = <<>>
    /\ Answer("r1").status = 400
    /\ Answer("r1").error.message = "GROQ_API_KEY environment variable is required"

\* the response with the generated id left out
SansId(resp) == [resp EXCEPT !.envelope.id = ""]

\* r and q were given the same body and the same answer by the upstream
SameInputs(r, q) ==
    /\ body[r] = body[q]
    /\ completion[r] = completion[q]
    /\ (UpstreamFailed(r) \/ UpstreamFailed(q)) => error[r] = error[q]

\* what the handler of r has read and written
Locals(r) ==
    <<pc[r], body[r], request[r], upstreamCalls[r], completion[r], error[r], responses[r]>>

\* the response of a request is a function of its body, the credential and
\* the upstream's answer to its own call, whatever the other request did; so
\* are the request it parsed and the call it issued
Determined ==
    \A r \in Requests : \A q \in Requests :
        /\ (body[r] = body[q] /\ Calling(r) /\ Calling(q)) =>
              /\ request[r] = request[q]
              /\ upstreamCalls[r] = upstreamCalls[q]
        /\ (pc[r] = "done" /\ pc[q] = "done" /\ SameInputs(r, q)) =>
              /\ Len(responses[r]) = 1 /\ Len(responses[q]) = 1
              /\ SansId(Answer(r)) = SansId(Answer(q))
              /\ error[r] = error[q]

\* a step belongs to one handler: the locals of every other request, the
\* credential and every body are as before, and an answer once given stays
OneHandlerSteps ==
    /\ env' = env
    /\ body' = body
    /\ \E r \in Requests : \A q \in Requests \ {r} : Locals(q)' = Locals(q)
    /\ \A r \in Requests : pc[r] = "done" => Locals(r)' = Locals(r)

\* C12: concurrent requests are independent.  Under every interleaving of two
\* handlers, a step of one leaves everything of the other untouched, an
\* answered request is never changed by what the other does afterwards
\* (its failure included), and two requests with the same body and the same
\* upstream answer get the same response apart from the generated id.
C12_Independent == [](Determined) /\ [][OneHandlerSteps]_vars

\* C12 witness: both requests are answered, r1 with a success envelope and r2,
\* with the same body, with the error of its rejected upstream call
C12_Witness ==
    /\ pc["r1"] = "done" /\ pc["r2"] = "done"
    /\ body["r1"] = body["r2"]
    /\ Answer("r1").kind = "envelope"
    /\ UpstreamFailed("r2")
    /\ Answer("r2").kind = "error"

\* C12, the other case: both requests, same body and same tool-call
\* completion, are answered with envelopes that differ in the id alone
C12_WitnessSameAnswer ==
    /\ pc["r1"] = "done" /\ pc["r2"] = "done"
    /\ SameInputs("r1", "r2")
    /\ Answer("r1").envelope.stop_reason = "tool_use"
    /\ Answer("r1").envelope.id # Answer("r2").envelope.id
    /\ SansId(Answer("r1")) = SansId(Answer("r2"))

====
